---- MODULE Spec2Model ----
(***************************************************************************)
(* A model of paperqa/readers.py: the text reader parse_text, the three    *)
(* chunkers chunk_ParsedText, chunk_text and chunk_code_text, and the      *)
(* entry point read_doc.  One behaviour of the model is one call of one of *)
(* these functions: Init draws the function and its arguments, the actions *)
(* are the steps of the function's body.                                   *)
(*                                                                         *)
(* Strings are sequences of characters and Python's len, slicing and +=    *)
(* are Len, PySlice and \o.  The chunkers never look at the value of a     *)
(* character, so their input texts are made of pairwise distinct           *)
(* characters (character k of the text is the number k): two chunks then   *)
(* hold an equal character only if they hold the same character of the     *)
(* source.  parse_text does look at the bytes it reads (line ends, bytes   *)
(* that do not decode), so its files are drawn from FileBytes.             *)
(***************************************************************************)
EXTENDS Integers, Sequences, FiniteSets, TLC

\* ---------------------------------------------------------------- bounds
MaxLen == 4
MaxDocLen == 10
MaxChunk == 4
MaxLines == 3
MaxLineLen == 3
MaxTokWidth == 2
MaxFileLen == 4

\* ---------------------------------------------------------------- Python
Min(a, b) == IF a < b THEN a ELSE b
Max(a, b) == IF a > b THEN a ELSE b

\* A slice index as Python normalises it against a sequence of length n.
PyIndex(idx, n) == IF idx < 0 THEN Max(n + idx, 0) ELSE Min(idx, n)

\* s[lo:hi]
PySlice(s, lo, hi) == SubSeq(s, PyIndex(lo, Len(s)) + 1, PyIndex(hi, Len(s)))

\* s[lo:]
PyFrom(s, lo) == PySlice(s, lo, Len(s))

\* range(0, n, step) for step > 0, as the sequence of its values.
PyRange(n, step) == [k \in 1..((n + step - 1) \div step) |-> (k - 1) * step]

\* int(num / den) for den > 0: truncation towards zero.
PyInt(num, den) == IF num >= 0 THEN num \div den ELSE -((-num) \div den)

\* math.ceil(num / den) for den > 0.
PyCeil(num, den) == -((-num) \div den)

RECURSIVE Concat(_)
\* "".join(ss)
Concat(ss) == IF ss = <<>> THEN <<>> ELSE Head(ss) \o Concat(Tail(ss))

RECURSIVE SumLen(_)
\* sum(len(t) for t in ss)
SumLen(ss) == IF ss = <<>> THEN 0 ELSE Len(Head(ss)) + SumLen(Tail(ss))

\* ---------------------------------------------------------------- inputs
\* The text of n pairwise distinct characters.
TextOf(n) == [k \in 1..n |-> k]

\* The lines of lengths lens[1], lens[2], ... cut from a text of distinct
\* characters.
LinesOf(lens) ==
    [j \in 1..Len(lens) |->
        [k \in 1..lens[j] |-> SumLen([m \in 1..(j - 1) |-> TextOf(lens[m])]) + k]]

LineLens == UNION {[1..k -> 0..MaxLineLen] : k \in 0..MaxLines}

\* ParsedText: content (a str or a list of lines) and the part of its
\* metadata the chunkers read.
StrParsedText(n) ==
    [content_type |-> "str", content |-> TextOf(n), total_parsed_text_length |-> n]

ListParsedText(lens) ==
    [content_type |-> "list", content |-> LinesOf(lens),
     total_parsed_text_length |-> SumLen(LinesOf(lens))]

NoParsedText == [content_type |-> "none", content |-> <<>>, total_parsed_text_length |-> 0]

ParsedTexts ==
    {StrParsedText(n) : n \in 0..MaxLen} \cup {ListParsedText(l) : l \in LineLens}

Docname == "doc1"

NoFlags ==
    [html |-> FALSE, split_lines |-> FALSE, use_tiktoken |-> FALSE,
     parsed_text_only |-> FALSE, include_metadata |-> FALSE]

VARIABLES
    op,           \* the function called
    pc,           \* the position in its body
    parsed_text,  \* the ParsedText argument (read_doc: the local parsed_text)
    chunk_chars,
    overlap,
    flags,        \* the boolean arguments
    file,         \* parse_text: the bytes of the file at path
    tok_width,    \* chunk_text: characters per token of the encoding
    content,      \* chunk_text: the local content (characters or tokens)
    text,         \* parse_text: the local text
    split,        \* chunk_code_text: the local split
    last_line,    \* chunk_code_text: the local last_line
    i,            \* the loop index (-1: not yet bound)
    texts,        \* the list of Text built so far
    exc,          \* the exception last raised, "none" if none
    result        \* "none" while running, then what the call ended in

vars ==
    <<op, pc, parsed_text, chunk_chars, overlap, flags, file, tok_width, content,
      text, split, last_line, i, texts, exc, result>>

Locals0 ==
    /\ content = <<>>
    /\ text = [type |-> "none", val |-> <<>>]
    /\ split = <<>>
    /\ last_line = 0
    /\ i = -1
    /\ texts = <<>>
    /\ exc = "none"
    /\ result = "none"
    /\ pc = "start"


\* ------------------------------------------------------- chunk_ParsedText
\* f"{doc.docname} chunk {k}"
ChunkName(k) == [docname |-> Docname, kind |-> "chunk", k |-> k]

\* f"{doc.docname} lines {a}-{b}"
LinesName(a, b) == [docname |-> Docname, kind |-> "lines", a |-> a, b |-> b]

\* Iterating a str gives its characters, each a str of length one.
PyIterStr(s) == [k \in 1..Len(s) |-> <<s[k]>>]

\* The check for empty content left out.
NoTextParsed_never(pt) == FALSE

\* `not parsed_text.content`: no text was parsed.
NoTextParsed(pt) == pt.content = <<>>

\* The list text_chunks of line 36 (for chunk_chars > 0).
text_chunks(text_content, c) ==
    [k \in 1..Len(PyRange(Len(text_content), c)) |->
        PySlice(text_content, PyRange(Len(text_content), c)[k],
                PyRange(Len(text_content), c)[k] + c)]

\* A slip in the stride of the slices: each chunk loses its last character.
enumerated_short(text_content, c) ==
    IF Len(text_content) > c
    THEN [k \in 1..Len(text_chunks(text_content, c)) |->
            PySlice(text_chunks(text_content, c)[k], 0, c - 1)]
    ELSE <<text_content>>

\* What line 40 enumerates: text_content, which the if-branch leaves the
\* str it was (text_chunks is assigned and never read) and the else-branch
\* rebinds to the one-element list [text_content].
enumerated(text_content, c) ==
    IF Len(text_content) > c THEN PyIterStr(text_content) ELSE <<text_content>>

\* Line 40: one Text per enumerated item, numbered from 1.
NumberedTexts(items) ==
    [k \in 1..Len(items) |-> [text |-> items[k], name |-> ChunkName(k)]]

chunk_ParsedText ==
    /\ op = "chunk_ParsedText"
    /\ pc = "start"
    /\ IF NoTextParsed(parsed_text)
       THEN /\ exc' = "ImpossibleParsingError"
            /\ result' = "raised"
            /\ pc' = "raised"
            /\ UNCHANGED texts
       ELSE IF Len(parsed_text.content) > chunk_chars /\ chunk_chars = 0
       THEN \* range() with a step of zero
            /\ exc' = "ValueError"
            /\ result' = "raised"
            /\ pc' = "raised"
            /\ UNCHANGED texts
       ELSE /\ texts' = NumberedTexts(enumerated(parsed_text.content, chunk_chars))
            /\ result' = "returned"
            /\ pc' = "done"
            /\ UNCHANGED exc
    /\ UNCHANGED <<op, parsed_text, chunk_chars, overlap, flags, file, tok_width,
                   content, text, split, last_line, i>>

InitChunkParsedText ==
    /\ op = "chunk_ParsedText"
    /\ parsed_text \in {StrParsedText(n) : n \in 0..MaxDocLen}
    /\ chunk_chars \in 0..MaxChunk
    /\ overlap \in 0..MaxChunk
    /\ flags = NoFlags
    /\ file = <<>>
    /\ tok_width = 1

\* -------------------------------------------------------- chunk_code_text
\* The isinstance check of lines 137-140.
IsLineStructured(pt) == pt.content_type = "list"

\* The emission loop is endless when overlap >= chunk_chars; the model
\* follows it for EmitCap emissions, more than any call with
\* chunk_chars > overlap makes.
EmitCap == MaxLines * MaxLineLen + 2

cct_enter ==
    /\ op = "chunk_code_text"
    /\ pc = "start"
    /\ IsLineStructured(parsed_text)
    /\ pc' = "for"
    /\ UNCHANGED <<op, parsed_text, chunk_chars, overlap, flags, file, tok_width,
                   content, text, split, last_line, i, texts, exc, result>>

cct_reject ==
    /\ op = "chunk_code_text"
    /\ pc = "start"
    /\ ~IsLineStructured(parsed_text)
    /\ exc' = "NotImplementedError"
    /\ result' = "raised"
    /\ pc' = "raised"
    /\ UNCHANGED <<op, parsed_text, chunk_chars, overlap, flags, file, tok_width,
                   content, text, split, last_line, i, texts>>

\* for i, line in enumerate(parsed_text.content): split += line
cct_next_line ==
    /\ op = "chunk_code_text"
    /\ pc = "for"
    /\ i + 1 < Len(parsed_text.content)
    /\ i' = i + 1
    /\ split' = split \o parsed_text.content[i + 2]
    /\ pc' = "while"
    /\ UNCHANGED <<op, parsed_text, chunk_chars, overlap, flags, file, tok_width,
                   content, text, last_line, texts, exc, result>>

cct_lines_done ==
    /\ op = "chunk_code_text"
    /\ pc = "for"
    /\ i + 1 >= Len(parsed_text.content)
    /\ pc' = "final"
    /\ UNCHANGED <<op, parsed_text, chunk_chars, overlap, flags, file, tok_width,
                   content, text, split, last_line, i, texts, exc, result>>

\* A slip in the retained tail: the overlap is added instead of subtracted.
retained_tail_plus(s, c, o) == PyFrom(s, c + o)

\* A slip in the retained tail: the last `overlap` characters, split[-overlap:],
\* which is all of split when overlap is 0.
retained_tail_from_end(s, c, o) == PyFrom(s, -o)

\* split[chunk_chars - overlap :]
retained_tail(s, c, o) == PyFrom(s, c - o)

\* len(split) > chunk_chars
over_budget(s, c) == Len(s) > c

\* A slip in the label: the range starts at the current line.
emitted_name_current(ll, ii) == LinesName(ii, ii)

\* The name of an emitted chunk.
emitted_name(ll, ii) == LinesName(ll, ii)

\* One iteration of the while loop.
cct_emit ==
    /\ op = "chunk_code_text"
    /\ pc = "while"
    /\ over_budget(split, chunk_chars)
    /\ Len(texts) < EmitCap
    /\ texts' = Append(texts, [text |-> PySlice(split, 0, chunk_chars),
                               name |-> emitted_name(last_line, i)])
    /\ split' = retained_tail(split, chunk_chars, overlap)
    /\ last_line' = i
    /\ UNCHANGED <<op, pc, parsed_text, chunk_chars, overlap, flags, file, tok_width,
                   content, text, i, exc, result>>

cct_while_exit ==
    /\ op = "chunk_code_text"
    /\ pc = "while"
    /\ ~over_budget(split, chunk_chars)
    /\ pc' = "for"
    /\ UNCHANGED <<op, parsed_text, chunk_chars, overlap, flags, file, tok_width,
                   content, text, split, last_line, i, texts, exc, result>>

\* len(split) > overlap or not texts
final_chunk_due(s, o, ts) == Len(s) > o \/ ts = <<>>

\* Lines 154-162.  With no line read, i was never bound and the f-string
\* of the final chunk raises.
cct_final ==
    /\ op = "chunk_code_text"
    /\ pc = "final"
    /\ IF final_chunk_due(split, overlap, texts) /\ i = -1
       THEN /\ exc' = "UnboundLocalError"
            /\ result' = "raised"
            /\ pc' = "raised"
            /\ UNCHANGED texts
       ELSE /\ texts' = IF final_chunk_due(split, overlap, texts)
                        THEN Append(texts, [text |-> PySlice(split, 0, chunk_chars),
                                            name |-> emitted_name(last_line, i)])
                        ELSE texts
            /\ result' = "returned"
            /\ pc' = "done"
            /\ UNCHANGED exc
    /\ UNCHANGED <<op, parsed_text, chunk_chars, overlap, flags, file, tok_width,
                   content, text, split, last_line, i>>

InitChunkCodeText ==
    /\ op = "chunk_code_text"
    /\ parsed_text \in ParsedTexts
    /\ chunk_chars \in 0..MaxChunk
    /\ overlap \in 0..MaxChunk
    /\ flags = NoFlags
    /\ file = <<>>
    /\ tok_width = 1


\* ------------------------------------------------------------- chunk_text
\* The isinstance check of lines 98-101.
IsStr(pt) == pt.content_type = "str"

\* parsed_text.encode_content() and enc.decode(): the tokenizer is outside
\* this file.  It is modelled as cutting the text into tokens of tok_width
\* characters (the last one shorter), which decode to their concatenation.
Encode(s, w) ==
    [k \in 1..((Len(s) + w - 1) \div w) |-> SubSeq(s, (k - 1) * w + 1, Min(k * w, Len(s)))]

Decode(tokens) == Concat(tokens)

\* Lines 106-111.  The quotients are floats in the code and exact rationals
\* here: chunk_tokens = chunk_chars * token_count / char_count and
\* overlap_tokens = overlap * token_count / char_count.  For character and
\* token counts up to 5 the ceiling and the truncations below are those the
\* doubles give.
chunk_count(char_count, token_count, c) == PyCeil(token_count * char_count, c * token_count)

\* A slip in the lower bound: the overlap is not subtracted.
window_lo_no_overlap(char_count, token_count, c, o, k) ==
    Max(PyInt(k * c * token_count, char_count), 0)

\* max(int(i * chunk_tokens - overlap_tokens), 0)
window_lo(char_count, token_count, c, o, k) ==
    Max(PyInt(k * c * token_count - o * token_count, char_count), 0)

\* A slip in the upper bound: a window one unit longer.
window_hi_plus_one(char_count, token_count, c, o, k) ==
    PyInt((k + 1) * c * token_count + o * token_count, char_count) + 1

\* int((i + 1) * chunk_tokens + overlap_tokens)
window_hi(char_count, token_count, c, o, k) ==
    PyInt((k + 1) * c * token_count + o * token_count, char_count)

\* Lines 94-111, up to the first iteration of the loop.
ct_enter ==
    /\ op = "chunk_text"
    /\ pc = "start"
    /\ IsStr(parsed_text)
    /\ content' = IF flags.use_tiktoken
                  THEN Encode(parsed_text.content, tok_width)
                  ELSE parsed_text.content
    /\ IF Len(content') = 0 \/ parsed_text.total_parsed_text_length = 0 \/ chunk_chars = 0
       THEN \* a float division by zero on line 108, 109 or 111
            /\ exc' = "ZeroDivisionError"
            /\ result' = "raised"
            /\ pc' = "raised"
       ELSE /\ pc' = "for"
            /\ UNCHANGED <<exc, result>>
    /\ UNCHANGED <<op, parsed_text, chunk_chars, overlap, flags, file, tok_width,
                   text, split, last_line, i, texts>>

ct_reject ==
    /\ op = "chunk_text"
    /\ pc = "start"
    /\ ~IsStr(parsed_text)
    /\ exc' = "NotImplementedError"
    /\ result' = "raised"
    /\ pc' = "raised"
    /\ UNCHANGED <<op, parsed_text, chunk_chars, overlap, flags, file, tok_width,
                   content, text, split, last_line, i, texts>>

\* One iteration of the loop of lines 113-125.
ct_next_chunk ==
    /\ op = "chunk_text"
    /\ pc = "for"
    /\ i + 1 < chunk_count(parsed_text.total_parsed_text_length, Len(content), chunk_chars)
    /\ i' = i + 1
    /\ split' = PySlice(content,
                        window_lo(parsed_text.total_parsed_text_length, Len(content),
                                  chunk_chars, overlap, i'),
                        window_hi(parsed_text.total_parsed_text_length, Len(content),
                                  chunk_chars, overlap, i'))
    /\ texts' = Append(texts, [text |-> IF flags.use_tiktoken THEN Decode(split') ELSE split',
                               name |-> ChunkName(i' + 1)])
    /\ UNCHANGED <<op, pc, parsed_text, chunk_chars, overlap, flags, file, tok_width,
                   content, text, last_line, exc, result>>

ct_return ==
    /\ op = "chunk_text"
    /\ pc = "for"
    /\ i + 1 >= chunk_count(parsed_text.total_parsed_text_length, Len(content), chunk_chars)
    /\ result' = "returned"
    /\ pc' = "done"
    /\ UNCHANGED <<op, parsed_text, chunk_chars, overlap, flags, file, tok_width,
                   content, text, split, last_line, i, texts, exc>>

InitChunkText ==
    /\ op = "chunk_text"
    /\ parsed_text \in ParsedTexts
    /\ chunk_chars \in 0..MaxChunk
    /\ overlap \in 0..MaxChunk
    /\ \E tk \in BOOLEAN : flags = [NoFlags EXCEPT !.use_tiktoken = tk]
    /\ tok_width \in 1..MaxTokWidth
    /\ file = <<>>

\* ------------------------------------------------------------- parse_text
\* A byte of the file: an ordinary character, a line end, or a byte that
\* does not decode.
FileBytes == {"a", "nl", "bad"}

Files == UNION {[1..k -> FileBytes] : k \in 0..MaxFileLen}

\* Whether the strict read of lines 57-58 decodes the file.
Decodes(f) == \A k \in 1..Len(f) : f[k] # "bad"

Decodable(b) == b # "bad"

\* f.read() under errors="ignore": the undecodable bytes are dropped.
LenientRead(f) == SelectSeq(f, Decodable)

\* The position of the first line end of s, 0 if it has none.
FirstLineEnd(s) ==
    IF \E k \in 1..Len(s) : s[k] = "nl"
    THEN CHOOSE k \in 1..Len(s) : s[k] = "nl" /\ \A m \in 1..(k - 1) : s[m] # "nl"
    ELSE 0

RECURSIVE SplitLines(_)
\* list(f): the lines of the file, each with its line end.
SplitLines(s) ==
    IF s = <<>> THEN <<>>
    ELSE IF FirstLineEnd(s) = 0 THEN <<s>>
    ELSE <<SubSeq(s, 1, FirstLineEnd(s))>> \o SplitLines(SubSeq(s, FirstLineEnd(s) + 1, Len(s)))

\* html2text(text), an external converter: on text without markup it joins
\* the lines with spaces and ends the text with a blank line.
Html2Text(s) == [k \in 1..Len(s) |-> IF s[k] = "nl" THEN "sp" ELSE s[k]] \o <<"nl", "nl">>

\* Lines 56-58: the strict read.
pt_read ==
    /\ op = "parse_text"
    /\ pc = "start"
    /\ Decodes(file)
    /\ text' = IF flags.split_lines
               THEN [type |-> "list", val |-> SplitLines(file)]
               ELSE [type |-> "str", val |-> file]
    /\ pc' = "html"
    /\ UNCHANGED <<op, parsed_text, chunk_chars, overlap, flags, file, tok_width,
                   content, split, last_line, i, texts, exc, result>>

\* Lines 56-59: the strict read raises UnicodeDecodeError.
pt_read_fails ==
    /\ op = "parse_text"
    /\ pc = "start"
    /\ ~Decodes(file)
    /\ exc' = "UnicodeDecodeError"
    /\ pc' = "except"
    /\ UNCHANGED <<op, parsed_text, chunk_chars, overlap, flags, file, tok_width,
                   content, text, split, last_line, i, texts, result>>

\* Lines 59-61: the lenient read, which does not look at split_lines.
pt_fallback ==
    /\ op = "parse_text"
    /\ pc = "except"
    /\ text' = [type |-> "str", val |-> LenientRead(file)]
    /\ pc' = "html"
    /\ UNCHANGED <<op, parsed_text, chunk_chars, overlap, flags, file, tok_width,
                   content, split, last_line, i, texts, exc, result>>

\* Lines 64-68.
pt_html_reject ==
    /\ op = "parse_text"
    /\ pc = "html"
    /\ flags.html
    /\ text.type # "str"
    /\ exc' = "NotImplementedError"
    /\ result' = "raised"
    /\ pc' = "raised"
    /\ UNCHANGED <<op, parsed_text, chunk_chars, overlap, flags, file, tok_width,
                   content, text, split, last_line, i, texts>>

\* Lines 63-82.
pt_return ==
    /\ op = "parse_text"
    /\ pc = "html"
    /\ ~(flags.html /\ text.type # "str")
    /\ text' = IF flags.html THEN [type |-> "str", val |-> Html2Text(text.val)] ELSE text
    /\ parsed_text' =
          [content_type |-> text'.type,
           content |-> text'.val,
           total_parsed_text_length |->
               IF text'.type = "str" THEN Len(text'.val) ELSE SumLen(text'.val),
           parsing_libraries |->
               (IF flags.use_tiktoken THEN <<"tiktoken (cl100k_base)">> ELSE <<>>)
               \o (IF flags.html THEN <<"html2text">> ELSE <<>>),
           parse_type |-> IF flags.html THEN "html" ELSE "txt"]
    /\ result' = "returned"
    /\ pc' = "done"
    /\ UNCHANGED <<op, chunk_chars, overlap, flags, file, tok_width,
                   content, split, last_line, i, texts, exc>>

InitParseText ==
    /\ op = "parse_text"
    /\ file \in Files
    /\ \E h \in BOOLEAN, sl \in BOOLEAN, tk \in BOOLEAN :
          flags = [NoFlags EXCEPT !.html = h, !.split_lines = sl, !.use_tiktoken = tk]
    /\ parsed_text = NoParsedText
    /\ chunk_chars = 0
    /\ overlap = 0
    /\ tok_width = 1

\* --------------------------------------------------------------- read_doc
\* What ParsedText(path, chunk_chars, overlap, parsed_text_only) on line 230
\* may end in: a value, one of the exceptions the handlers name ("Exception"
\* stands for any other subclass of Exception), or an exception that is no
\* Exception.
ParseOutcomes == {"ok", "ImpossibleParsingError", "ValueError", "Exception", "KeyboardInterrupt"}

\* The value line 230 binds to parsed_text when the constructor returns.
BoundParsedText == StrParsedText(1)

\* The except clauses of lines 231-239.
Caught(e) == e \in {"ImpossibleParsingError", "ValueError", "Exception"}

\* A handler that raises the exception again.
after_handler_reraise(e) == "raised"

\* Where control goes after a handler body, which is `...`: on to line 241.
after_handler(e) == "dispatch"

\* Line 230.
rd_parse ==
    /\ op = "read_doc"
    /\ pc = "start"
    /\ \E outcome \in ParseOutcomes :
          IF outcome = "ok"
          THEN /\ parsed_text' = BoundParsedText
               /\ pc' = "dispatch"
               /\ UNCHANGED exc
          ELSE /\ exc' = outcome
               /\ pc' = "except"
               /\ UNCHANGED parsed_text
    /\ UNCHANGED <<op, chunk_chars, overlap, flags, file, tok_width,
                   content, text, split, last_line, i, texts, result>>

\* Lines 231-239: the exception matches a clause; exc keeps naming it.
rd_handle ==
    /\ op = "read_doc"
    /\ pc = "except"
    /\ Caught(exc)
    /\ pc' = after_handler(exc)
    /\ result' = IF pc' = "raised" THEN "raised" ELSE result
    /\ UNCHANGED <<op, parsed_text, chunk_chars, overlap, flags, file, tok_width,
                   content, text, split, last_line, i, texts, exc>>

\* No clause matches: the exception leaves read_doc.
rd_propagate ==
    /\ op = "read_doc"
    /\ pc = "except"
    /\ ~Caught(exc)
    /\ result' = "raised"
    /\ pc' = "raised"
    /\ UNCHANGED <<op, parsed_text, chunk_chars, overlap, flags, file, tok_width,
                   content, text, split, last_line, i, texts, exc>>

\* Lines 241-247: all three returns read the local parsed_text.
rd_dispatch ==
    /\ op = "read_doc"
    /\ pc = "dispatch"
    /\ IF parsed_text = NoParsedText
       THEN /\ exc' = "UnboundLocalError"
            /\ result' = "raised"
            /\ pc' = "raised"
       ELSE /\ result' = IF flags.parsed_text_only THEN "returned text"
                         ELSE IF flags.include_metadata THEN "returned chunked, metadata"
                         ELSE "returned chunked"
            /\ pc' = "done"
            /\ UNCHANGED exc
    /\ UNCHANGED <<op, parsed_text, chunk_chars, overlap, flags, file, tok_width,
                   content, text, split, last_line, i, texts>>

InitReadDoc ==
    /\ op = "read_doc"
    /\ \E pto \in BOOLEAN, im \in BOOLEAN :
          flags = [NoFlags EXCEPT !.parsed_text_only = pto, !.include_metadata = im]
    /\ parsed_text = NoParsedText
    /\ chunk_chars \in 0..MaxChunk
    /\ overlap \in 0..MaxChunk
    /\ file = <<>>
    /\ tok_width = 1

\* ---------------------------------------------------------- specification
Init ==
    /\ Locals0
    /\ \/ InitChunkParsedText
       \/ InitChunkText
       \/ InitChunkCodeText
       \/ InitParseText
       \/ InitReadDoc

Next ==
    \/ chunk_ParsedText
    \/ ct_enter
    \/ ct_reject
    \/ ct_next_chunk
    \/ ct_return
    \/ cct_enter
    \/ cct_reject
    \/ cct_next_line
    \/ cct_lines_done
    \/ cct_emit
    \/ cct_while_exit
    \/ cct_final
    \/ pt_read
    \/ pt_read_fails
    \/ pt_fallback
    \/ pt_html_reject
    \/ pt_return
    \/ rd_parse
    \/ rd_handle
    \/ rd_propagate
    \/ rd_dispatch

Spec == Init /\ [][Next]_vars

\* A call runs to its end: the interpreter takes the next step whenever
\* there is one.
FairSpec == Spec /\ WF_vars(Next)


\* ------------------------------------------------------------- properties
\* The texts of the chunks built so far, in order.
ChunkTexts == [k \in 1..Len(texts) |-> texts[k].text]

\* The characters of a chunk (the characters of a text are distinct).
CharsOf(k) == {texts[k].text[m] : m \in 1..Len(texts[k].text)}

\* A call of chunk_ParsedText that returned, made with chunk_chars > 0.
CPT_Returned == op = "chunk_ParsedText" /\ pc = "done" /\ chunk_chars > 0

\* C1: for non-empty text of length n and chunk_chars = c > 0,
\* chunk_ParsedText returns ceil(n/c) chunks, chunk k being text[(k-1)*c : k*c]
\* and named '<docname> chunk k'.
C1_FixedSizeChunks ==
    CPT_Returned =>
        /\ Len(texts) * chunk_chars >= Len(parsed_text.content)
        /\ (Len(texts) - 1) * chunk_chars < Len(parsed_text.content)
        /\ \A k \in 1..Len(texts) :
              /\ texts[k].text =
                    PySlice(parsed_text.content, (k - 1) * chunk_chars, k * chunk_chars)
              /\ texts[k].name = ChunkName(k)

\* C5: for non-empty text and chunk_chars > 0, the texts of the chunks that
\* chunk_ParsedText returns, concatenated in order, are the original text.
C5_ConcatIsText == CPT_Returned => Concat(ChunkTexts) = parsed_text.content

\* C5's case: a text longer than chunk_chars, returned as several chunks.
C5_Witness ==
    /\ CPT_Returned
    /\ Len(parsed_text.content) > chunk_chars
    /\ Len(texts) > 1

\* C6: with empty content chunk_ParsedText raises ImpossibleParsingError for
\* every chunk_chars and overlap and returns no list of chunks.
C6_EmptyRaises ==
    (op = "chunk_ParsedText" /\ parsed_text.content = <<>> /\ pc # "start") =>
        /\ pc = "raised"
        /\ result = "raised"
        /\ exc = "ImpossibleParsingError"
        /\ texts = <<>>

\* C6's case: the call on empty content has raised, here with a positive
\* chunk_chars and overlap.
C6_Witness ==
    /\ op = "chunk_ParsedText"
    /\ parsed_text.content = <<>>
    /\ pc = "raised"
    /\ chunk_chars > 0
    /\ overlap > 0

\* A call of chunk_code_text on a list of lines with chunk_chars > overlap.
CCT_Call == op = "chunk_code_text" /\ parsed_text.content_type = "list" /\ chunk_chars > overlap

\* C2: for a non-empty list of lines and chunk_chars > overlap >= 0,
\* chunk_code_text returns at least one chunk, every line index lies in the
\* range 'lines a-b' of some chunk, and the last chunk's range ends at the
\* last line.
C2_EveryLineCovered ==
    (CCT_Call /\ parsed_text.content # <<>> /\ pc = "done") =>
        /\ Len(texts) >= 1
        /\ \A j \in 0..(Len(parsed_text.content) - 1) :
              \E k \in 1..Len(texts) : texts[k].name.a <= j /\ j <= texts[k].name.b
        /\ texts[Len(texts)].name.b = Len(parsed_text.content) - 1

\* C2's case: chunks were emitted in the loop, the last of them before the
\* last line was read, and the call returned.
C2_Witness ==
    /\ CCT_Call
    /\ pc = "done"
    /\ Len(parsed_text.content) = MaxLines
    /\ Len(texts) >= 3
    /\ texts[Len(texts) - 1].name.b < Len(parsed_text.content) - 1

\* The last n characters of s.
Suffix(s, n) == SubSeq(s, Len(s) - n + 1, Len(s))

\* The chunks with the first `overlap` characters of every chunk but the
\* first dropped.
NewParts ==
    [k \in 1..Len(texts) |->
        IF k = 1 THEN texts[k].text ELSE PyFrom(texts[k].text, overlap)]

\* C8: with chunk_chars > overlap >= 0, a chunk emitted in the loop has
\* exactly chunk_chars characters, every chunk at most chunk_chars, each
\* chunk after the first begins with the last `overlap` characters of the
\* one before, and the chunks without those first characters concatenate to
\* the concatenation of the lines.
C8_ChunkSizesAndOverlap ==
    CCT_Call =>
        /\ \A k \in 1..Len(texts) :
              /\ Len(texts[k].text) <= chunk_chars
              /\ (pc # "done" \/ k < Len(texts)) => Len(texts[k].text) = chunk_chars
        /\ \A k \in 2..Len(texts) :
              /\ Len(texts[k].text) >= overlap
              /\ PySlice(texts[k].text, 0, overlap) = Suffix(texts[k - 1].text, overlap)
        /\ pc = "done" => Concat(NewParts) = Concat(parsed_text.content)

\* C8's case: a positive overlap, chunks emitted in the loop and a final one.
C8_Witness ==
    /\ CCT_Call
    /\ pc = "done"
    /\ overlap > 0
    /\ Len(texts) >= 3
    /\ Len(texts[Len(texts)].text) < chunk_chars

CT_Returned == op = "chunk_text" /\ pc = "done"

\* Unit p (0-based) lies in the window of chunk idx (0-based): with
\* A = idx * chunk_tokens - overlap_tokens and B = (idx + 1) * chunk_tokens +
\* overlap_tokens, the slice [max(int(A), 0) : int(B)] holds the units with
\* A < p + 1 <= B.  Both sides are multiplied by char_count.
InWindow(idx, p) ==
    LET cc == parsed_text.total_parsed_text_length
        tc == Len(content)
    IN  /\ idx * chunk_chars * tc - overlap * tc < (p + 1) * cc
        /\ (p + 1) * cc <= (idx + 1) * chunk_chars * tc + overlap * tc

\* The units of the window of chunk idx, in order.
WindowUnits(idx) ==
    LET W == {p \in 0..(Len(content) - 1) : InWindow(idx, p)}
    IN  IF W = {} THEN <<>>
        ELSE LET first == CHOOSE p \in W : \A q \in W : p <= q
             IN  [m \in 1..Cardinality(W) |-> content[first + m]]

\* C3: chunk_text returns ceil(token_count / chunk_tokens) chunks, chunk i
\* (0-based) being the slice of the units from max(i * chunk_tokens -
\* overlap_tokens, 0) up to (i + 1) * chunk_tokens + overlap_tokens (decoded,
\* with tiktoken), named '<docname> chunk i+1'.
C3_WindowsOfUnits ==
    CT_Returned =>
        LET cc == parsed_text.total_parsed_text_length
            tc == Len(content)
        IN  /\ Len(texts) * chunk_chars * tc >= tc * cc
            /\ (Len(texts) - 1) * chunk_chars * tc < tc * cc
            /\ \A k \in 1..Len(texts) :
                  /\ texts[k].name = ChunkName(k)
                  /\ texts[k].text =
                        IF flags.use_tiktoken
                        THEN Decode(WindowUnits(k - 1))
                        ELSE WindowUnits(k - 1)

\* C3's case: tokens, a ratio of characters to tokens that is no integer, a
\* positive overlap, several chunks.
C3_Witness ==
    /\ CT_Returned
    /\ flags.use_tiktoken
    /\ parsed_text.total_parsed_text_length % Len(content) # 0
    /\ overlap > 0
    /\ Len(texts) >= 2

\* A call of chunk_text on characters that returned, made with
\* chunk_chars > overlap on a text longer than chunk_chars.
CT_CharsReturned ==
    /\ CT_Returned
    /\ ~flags.use_tiktoken
    /\ chunk_chars > overlap
    /\ Len(parsed_text.content) > chunk_chars

\* The number of characters chunks k and k + 1 share.
Shared(k) == Cardinality(CharsOf(k) \cap CharsOf(k + 1))

C7_SplitLinesGivesList ==
    (op = "parse_text" /\ pc = "done" /\ flags.split_lines /\ ~flags.html) =>
        IsLineStructured(parsed_text)

\* C9: an ImpossibleParsingError, ValueError or other Exception of the parse
\* step is caught, control goes on to the dispatch with parsed_text unbound,
\* and the dispatch ends the call in UnboundLocalError: no value is
\* returned and the exception caught is not the one that leaves read_doc.
C9_SwallowedThenUnbound ==
    [][op = "read_doc" =>
          /\ (pc = "except" /\ exc \in {"ImpossibleParsingError", "ValueError", "Exception"})
                => (pc' = "dispatch" /\ parsed_text' = NoParsedText /\ result' = "none")
          /\ (pc = "dispatch" /\ exc # "none")
                => (pc' = "raised" /\ result' = "raised" /\ exc' = "UnboundLocalError")]_vars

\* C9's case: the call ended in UnboundLocalError.
C9_Witness ==
    /\ op = "read_doc"
    /\ pc = "raised"
    /\ exc = "UnboundLocalError"
    /\ parsed_text = NoParsedText

====
